---- MODULE Spec2Model ----
(***************************************************************************)
(* The diagnostic scripts of the repository as state machines.             *)
(*                                                                         *)
(*   tools/debug_braces.py          brace balance from the start of a file *)
(*   tools/find_premature_close.py  first zero balance at/after a marker   *)
(*   tools/check_method_braces.py   extent of one method's brace block     *)
(*   fix_condition_files.py         rewrite of the condition.* fixtures    *)
(*                                                                         *)
(* A text file is a sequence of lines, a line a sequence of characters.    *)
(* Every loop iteration of a script is one action; a search that only      *)
(* computes a value (first line containing a substring) is one action.     *)
(* Python's None is the value None; an uncaught exception moves the        *)
(* script to pc = "crashed" with the exception's type in exc.              *)
(***************************************************************************)
EXTENDS Integers, Sequences, FiniteSets, TLC

VARIABLES
    script,                  \* which script this process runs
    lines,                   \* the scanned file (AffixManager.cs), a sequence of lines
    pc,                      \* position in the script
    i,                       \* number of the line the scan loop has consumed last
    bal,                     \* the balance counter
    last_zero,               \* debug_braces.py
    start_class,             \* find_premature_close.py
    first_zero_after_class,  \* find_premature_close.py
    start,                   \* check_method_braces.py
    first_open,              \* check_method_braces.py
    end,                     \* check_method_braces.py
    out,                     \* what the process has printed, in order
    exc,                     \* "none", or the exception that ended the process
    runs,                    \* number of the current invocation
    prev,                    \* <<out, exc>> of the previous invocation
    dic, aff, good,          \* fix_condition_files.py: the three fixture files
    aff_lines,               \* fix_condition_files.py: `lines`
    new_lines,               \* fix_condition_files.py
    content,                 \* fix_condition_files.py
    written,                 \* fix_condition_files.py: lines writelines() has written
    old_aff, old_good        \* the fixture files as they were before the run

scanLocals == <<i, bal, last_zero, start_class, first_zero_after_class,
                start, first_open, end>>
fixVars == <<dic, aff, good, aff_lines, new_lines, content, written,
             old_aff, old_good>>
vars == <<script, lines, pc, out, exc, runs, prev, scanLocals, fixVars>>

-----------------------------------------------------------------------------
(* Bounds of the model *)

MaxLines == 2
MaxLen == 2
MaxRuns == 2

-----------------------------------------------------------------------------
(* Values *)

None == -1

\* The hardcoded substrings the marker scripts look for; neither holds a brace.
class_decl == <<"M">>
method_sig == <<"M">>

Chars == {"{", "}", "M"}

Terminal == {"done", "crashed", "exited"}

\* The texts the scripts print.
MsgNegative == "Balance negative at line"
MsgLastZero == "Last line where balance==0 before negative:"
MsgClass == "class starts at"
MsgFirstZero == "first zero after class at"
MsgNoSig == "Method signature not found"
MsgNoOpen == "No opening brace found for method"
MsgMethod == "Method signature at line, first brace at, closing at, final balance"

LinesOf(n) == UNION {[1..k -> Chars] : k \in 0..n}
FilesOf(m, n) == UNION {[1..k -> LinesOf(n)] : k \in 0..m}

\* The inputs the specification's examples name.
ExampleFiles ==
    { << <<"{">>, <<"}">>, <<"}">> >>,
      << <<"{">>, <<"{">>, <<"}">>, <<"}">> >>,
      << <<"{">>, <<"{">>, <<"}">>, <<"M">>, <<"}">> >>,
      << <<"M", "{">>, <<"{">>, <<"}">> >>,
      << <<"}", "{">>, <<"{">>, <<"}", "}">> >> }

Files == FilesOf(MaxLines, MaxLen) \cup ExampleFiles

-----------------------------------------------------------------------------
(* Pure helpers *)

\* if c=='{': bal+=1 / elif c=='}': bal-=1
CountCharElse(b, c) == IF c = "{" THEN b + 1 ELSE b - 1
CountChar(b, c) == IF c = "{" THEN b + 1 ELSE IF c = "}" THEN b - 1 ELSE b

\* for c in line: ...
RECURSIVE CountLine(_, _)
CountLine(b, line) ==
    IF line = <<>> THEN b
    ELSE CountLine(CountChar(b, Head(line)), Tail(line))

\* Python's `sub in line`
Contains(sub, line) ==
    \E k \in 0..(Len(line) - Len(sub)) : SubSeq(line, k + 1, k + Len(sub)) = sub

\* for n, line in enumerate(ls): if sub in line: found = n; break
\* searched over the 1-based line numbers k, k+1, ...
RECURSIVE FirstMatch(_, _, _)
FirstMatch(sub, ls, k) ==
    IF k > Len(ls) THEN None
    ELSE IF Contains(sub, ls[k]) THEN k
    ELSE FirstMatch(sub, ls, k + 1)

\* for idx in range(lo, hi): if 0<=idx<len(lines): print(idx+1, ...)
RECURSIVE Excerpt(_, _, _)
Excerpt(lo, hi, n) ==
    IF lo >= hi THEN <<>>
    ELSE IF 0 <= lo /\ lo < n THEN <<lo + 1>> \o Excerpt(lo + 1, hi, n)
    ELSE Excerpt(lo + 1, hi, n)

-----------------------------------------------------------------------------
(* tools/debug_braces.py *)

DebugBracesOpen ==
    /\ script = "debug_braces" /\ pc = "start"
    /\ bal' = 0
    /\ last_zero' = None
    /\ i' = 0
    /\ pc' = "loop"
    /\ UNCHANGED <<script, lines, out, exc, runs, prev, start_class,
                   first_zero_after_class, start, first_open, end, fixVars>>

\* Variants of the loop body: without the break; numbering lines from 0;
\* recording a line as balanced when the balance is <= 0.
DebugBracesLineNoBreak ==
    /\ script = "debug_braces" /\ pc = "loop" /\ i < Len(lines)
    /\ i' = i + 1
    /\ bal' = CountLine(bal, lines[i + 1])
    /\ last_zero' = IF bal' = 0 THEN i' ELSE last_zero
    /\ IF bal' < 0
       THEN out' = Append(out, <<MsgNegative, <<i'>>>>)
       ELSE UNCHANGED out
    /\ UNCHANGED <<script, lines, pc, exc, runs, prev, start_class,
                   first_zero_after_class, start, first_open, end, fixVars>>

DebugBracesLineZeroBased ==
    /\ script = "debug_braces" /\ pc = "loop" /\ i < Len(lines)
    /\ i' = i + 1
    /\ bal' = CountLine(bal, lines[i + 1])
    /\ last_zero' = IF bal' = 0 THEN i ELSE last_zero
    /\ IF bal' < 0
       THEN /\ out' = Append(out, <<MsgNegative, <<i>>>>)
            /\ pc' = "break"
       ELSE UNCHANGED <<out, pc>>
    /\ UNCHANGED <<script, lines, exc, runs, prev, start_class,
                   first_zero_after_class, start, first_open, end, fixVars>>

DebugBracesLineLe ==
    /\ script = "debug_braces" /\ pc = "loop" /\ i < Len(lines)
    /\ i' = i + 1
    /\ bal' = CountLine(bal, lines[i + 1])
    /\ last_zero' = IF bal' <= 0 THEN i' ELSE last_zero
    /\ IF bal' < 0
       THEN /\ out' = Append(out, <<MsgNegative, <<i'>>>>)
            /\ pc' = "break"
       ELSE UNCHANGED <<out, pc>>
    /\ UNCHANGED <<script, lines, exc, runs, prev, start_class,
                   first_zero_after_class, start, first_open, end, fixVars>>

DebugBracesLine ==
    /\ script = "debug_braces" /\ pc = "loop" /\ i < Len(lines)
    /\ i' = i + 1
    /\ bal' = CountLine(bal, lines[i + 1])
    /\ last_zero' = IF bal' = 0 THEN i' ELSE last_zero
    /\ IF bal' < 0
       THEN /\ out' = Append(out, <<MsgNegative, <<i'>>>>)
            /\ pc' = "break"
       ELSE UNCHANGED <<out, pc>>
    /\ UNCHANGED <<script, lines, exc, runs, prev, start_class,
                   first_zero_after_class, start, first_open, end, fixVars>>

DebugBracesReport ==
    /\ script = "debug_braces"
    /\ (pc = "loop" /\ i = Len(lines)) \/ pc = "break"
    /\ out' = Append(out, <<MsgLastZero, <<last_zero>>>>)
    /\ pc' = "done"
    /\ UNCHANGED <<script, lines, exc, runs, prev, scanLocals, fixVars>>

-----------------------------------------------------------------------------
(* tools/find_premature_close.py *)

FindClass ==
    /\ script = "find_premature_close" /\ pc = "start"
    /\ start_class' = FirstMatch(class_decl, lines, 1)
    /\ out' = Append(out, <<MsgClass, <<start_class'>>>>)
    /\ bal' = 0
    /\ first_zero_after_class' = None
    /\ i' = 0
    /\ pc' = "loop"
    /\ UNCHANGED <<script, lines, exc, runs, prev, last_zero,
                   start, first_open, end, fixVars>>

\* Variants of the loop body: counting braces only from the marker line on;
\* consuming the file while reading it.
FindPrematureLineFromMarker ==
    /\ script = "find_premature_close" /\ pc = "loop" /\ i < Len(lines)
    /\ i' = i + 1
    /\ bal' = IF start_class # None /\ i' >= start_class
              THEN CountLine(bal, lines[i + 1]) ELSE bal
    /\ IF start_class = None
       THEN /\ exc' = "TypeError"
            /\ pc' = "crashed"
            /\ UNCHANGED first_zero_after_class
       ELSE IF i' >= start_class /\ bal' = 0
       THEN /\ first_zero_after_class' = i'
            /\ pc' = "break"
            /\ UNCHANGED exc
       ELSE UNCHANGED <<first_zero_after_class, pc, exc>>
    /\ UNCHANGED <<script, lines, out, runs, prev, last_zero, start_class,
                   start, first_open, end, fixVars>>

FindPrematureLineConsume ==
    /\ script = "find_premature_close" /\ pc = "loop" /\ i < Len(lines)
    /\ i' = i + 1
    /\ bal' = CountLine(bal, lines[i + 1])
    /\ lines' = [lines EXCEPT ![i + 1] = <<>>]
    /\ IF start_class = None
       THEN /\ exc' = "TypeError"
            /\ pc' = "crashed"
            /\ UNCHANGED first_zero_after_class
       ELSE IF i' >= start_class /\ bal' = 0
       THEN /\ first_zero_after_class' = i'
            /\ pc' = "break"
            /\ UNCHANGED exc
       ELSE UNCHANGED <<first_zero_after_class, pc, exc>>
    /\ UNCHANGED <<script, out, runs, prev, last_zero, start_class,
                   start, first_open, end, fixVars>>

FindPrematureLine ==
    /\ script = "find_premature_close" /\ pc = "loop" /\ i < Len(lines)
    /\ i' = i + 1
    /\ bal' = CountLine(bal, lines[i + 1])
    /\ IF start_class = None
       THEN \* i>=start_class compares an int with None
            /\ exc' = "TypeError"
            /\ pc' = "crashed"
            /\ UNCHANGED first_zero_after_class
       ELSE IF i' >= start_class /\ bal' = 0
       THEN /\ first_zero_after_class' = i'
            /\ pc' = "break"
            /\ UNCHANGED exc
       ELSE UNCHANGED <<first_zero_after_class, pc, exc>>
    /\ UNCHANGED <<script, lines, out, runs, prev, last_zero, start_class,
                   start, first_open, end, fixVars>>

FindPrematureReport ==
    /\ script = "find_premature_close"
    /\ (pc = "loop" /\ i = Len(lines)) \/ pc = "break"
    /\ out' = Append(out, <<MsgFirstZero, <<first_zero_after_class>>>>)
    /\ pc' = "done"
    /\ UNCHANGED <<script, lines, exc, runs, prev, scanLocals, fixVars>>

-----------------------------------------------------------------------------
(* tools/check_method_braces.py *)

FindSignature ==
    /\ script = "check_method_braces" /\ pc = "start"
    /\ start' = FirstMatch(method_sig, lines, 1)
    /\ IF start' = None
       THEN /\ out' = Append(out, <<MsgNoSig, <<>>>>)
            /\ exc' = "SystemExit"
            /\ pc' = "exited"
       ELSE /\ pc' = "sig_found"
            /\ UNCHANGED <<out, exc>>
    /\ UNCHANGED <<script, lines, runs, prev, i, bal, last_zero, start_class,
                   first_zero_after_class, first_open, end, fixVars>>

\* range(start, len(lines)) holds 0-based indices: the first line looked at is
\* the 1-based line start+1.
FirstOpenFromSig(s) == s
FirstOpenFrom(s) == s + 1

FindFirstOpen ==
    /\ script = "check_method_braces" /\ pc = "sig_found"
    /\ first_open' = FirstMatch(<<"{">>, lines, FirstOpenFrom(start))
    /\ bal' = 0
    /\ IF first_open' = None
       THEN /\ out' = Append(out, <<MsgNoOpen, <<>>>>)
            /\ exc' = "SystemExit"
            /\ pc' = "exited"
            /\ UNCHANGED <<end, i>>
       ELSE /\ end' = None
            /\ i' = first_open' - 1
            /\ pc' = "loop"
            /\ UNCHANGED <<out, exc>>
    /\ UNCHANGED <<script, lines, runs, prev, last_zero, start_class,
                   first_zero_after_class, start, fixVars>>

MethodLine ==
    /\ script = "check_method_braces" /\ pc = "loop" /\ i < Len(lines)
    /\ i' = i + 1
    /\ bal' = CountLine(bal, lines[i + 1])
    /\ IF bal' = 0
       THEN /\ end' = i'
            /\ pc' = "break"
       ELSE UNCHANGED <<end, pc>>
    /\ UNCHANGED <<script, lines, out, exc, runs, prev, last_zero, start_class,
                   first_zero_after_class, start, first_open, fixVars>>

MethodReport ==
    /\ script = "check_method_braces"
    /\ (pc = "loop" /\ i = Len(lines)) \/ pc = "break"
    /\ out' = Append(out, <<MsgMethod, <<start, first_open, end, bal>>>>)
    /\ pc' = "excerpt"
    /\ UNCHANGED <<script, lines, exc, runs, prev, scanLocals, fixVars>>

MethodExcerpt ==
    /\ script = "check_method_braces" /\ pc = "excerpt"
    /\ LET head == <<"excerpt", Excerpt(first_open - 5, first_open + 5, Len(lines))>>
           dots == <<"...", <<>>>>
       IN IF end = None
          THEN \* end-6 subtracts from None
               /\ out' = out \o <<head, dots>>
               /\ exc' = "TypeError"
               /\ pc' = "crashed"
          ELSE /\ out' = out \o <<head, dots,
                           <<"excerpt", Excerpt(end - 6, end + 1, Len(lines))>> >>
               /\ pc' = "done"
               /\ UNCHANGED exc
    /\ UNCHANGED <<script, lines, runs, prev, scanLocals, fixVars>>

-----------------------------------------------------------------------------
(* Running a script again: a new process, nothing in memory survives. *)

Rerun ==
    /\ script \in {"debug_braces", "find_premature_close", "check_method_braces"}
    /\ pc \in Terminal /\ runs < MaxRuns
    /\ prev' = <<out, exc>>
    /\ runs' = runs + 1
    /\ pc' = "start"
    /\ out' = <<>>
    /\ exc' = "none"
    /\ i' = 0 /\ bal' = 0
    /\ last_zero' = None /\ start_class' = None /\ first_zero_after_class' = None
    /\ start' = None /\ first_open' = None /\ end' = None
    /\ UNCHANGED <<script, lines, fixVars>>

-----------------------------------------------------------------------------

FixIdle ==
    /\ dic = <<>> /\ aff = <<>> /\ good = <<>>
    /\ aff_lines = <<>> /\ new_lines = <<>> /\ content = <<>>
    /\ written = 0 /\ old_aff = <<>> /\ old_good = <<>>

Init ==
    /\ script \in {"debug_braces", "find_premature_close", "check_method_braces"}
    /\ lines \in Files
    /\ pc = "start"
    /\ out = <<>> /\ exc = "none"
    /\ runs = 1 /\ prev = <<>>
    /\ i = 0 /\ bal = 0
    /\ last_zero = None /\ start_class = None /\ first_zero_after_class = None
    /\ start = None /\ first_open = None /\ end = None
    /\ FixIdle

Next ==
    \/ DebugBracesOpen
    \/ DebugBracesLine
    \/ DebugBracesReport
    \/ FindClass
    \/ FindPrematureLine
    \/ FindPrematureReport
    \/ FindSignature
    \/ FindFirstOpen
    \/ MethodLine
    \/ MethodReport
    \/ MethodExcerpt
    \/ Rerun

Spec == Init /\ [][Next]_vars

-----------------------------------------------------------------------------
(* fix_condition_files.py *)
(*                                                                         *)
(* A fixture file on disk is a sequence of byte groups: "Z" (the ASCII     *)
(* text "SFX Z"), "[" and "]" (ASCII), "C3A9" (the UTF-8 bytes of e-acute),*)
(* "E282AC" (the UTF-8 bytes of the euro sign) and "E9" (the lone byte     *)
(* 0xE9: e-acute in ISO-8859-2, invalid as UTF-8). Decoded text is a       *)
(* sequence of characters. condition.aff is kept line by line.             *)

MaxAffLines == 2
MaxAffLen == 2
MaxGoodLen == 1

AffBytes == {"Z", "[", "]", "E9", "C3A9"}
GoodBytes == {"E9", "C3A9", "E282AC"}

SeqsOf(S, n) == UNION {[1..k -> S] : k \in 0..n}

AffExamples ==
    { << <<"Z", "[", "E9", "]">> >>,
      << <<"C3A9">>, <<"Z", "[", "E9", "]">>, <<"E9">>, <<"]">> >> }

AffFiles == SeqsOf(SeqsOf(AffBytes, MaxAffLen), MaxAffLines) \cup AffExamples
GoodFiles == SeqsOf(GoodBytes, MaxGoodLen)

MsgFixed == "Fixed"

\* decode('utf-8') of one byte group; errors='replace' turns an invalid byte
\* into U+FFFD
Utf8DecodeGroup(g) ==
    CASE g = "C3A9" -> "e_acute"
      [] g = "E282AC" -> "euro"
      [] g = "E9" -> "U+FFFD"
      [] OTHER -> g
Utf8Valid(bytes) == \A k \in 1..Len(bytes) : bytes[k] # "E9"
Utf8DecodeReplace(bytes) == [k \in 1..Len(bytes) |-> Utf8DecodeGroup(bytes[k])]

\* encode('iso-8859-2') of one character; U+FFFD and the euro sign have none
Latin2Encodable(text) == \A k \in 1..Len(text) : text[k] \notin {"U+FFFD", "euro"}
Latin2EncodeChar(c) == IF c = "e_acute" THEN "E9" ELSE c
Latin2Encode(text) == [k \in 1..Len(text) |-> Latin2EncodeChar(text[k])]

\* the literal written to condition.dic, and the literal "[aeiou<e-acute>]"
\* ("a" standing for the five ASCII vowels)
dic_content == <<"e_acute", "Z">>
Replacement == <<"[", "a", "e_acute", "]">>

\* re.sub(r"\[.*?\]", Replacement, line)
RECURSIVE BracketSub(_)
BracketSub(line) ==
    IF line = <<>> THEN <<>>
    ELSE IF Head(line) = "[" /\ \E k \in 2..Len(line) : line[k] = "]"
    THEN LET k == CHOOSE x \in 2..Len(line) :
                    /\ line[x] = "]"
                    /\ \A y \in 2..(x - 1) : line[y] # "]"
         IN Replacement \o BracketSub(SubSeq(line, k + 1, Len(line)))
    ELSE <<Head(line)>> \o BracketSub(Tail(line))

\* the loop body building new_lines
FixLine(line) ==
    IF Contains(<<"Z">>, line) /\ Contains(<<"[">>, line)
    THEN BracketSub(line)
    ELSE line

WriteDic ==
    /\ script = "fix_condition_files" /\ pc = "start"
    /\ dic' = Latin2Encode(dic_content)
    /\ out' = Append(out, <<MsgFixed, <<1>>>>)
    /\ pc' = "read_aff"
    /\ UNCHANGED <<script, lines, exc, runs, prev, scanLocals, aff, good,
                   aff_lines, new_lines, content, written, old_aff, old_good>>

ReadAff ==
    /\ script = "fix_condition_files" /\ pc = "read_aff"
    /\ aff_lines' = [n \in 1..Len(aff) |-> Utf8DecodeReplace(aff[n])]
    /\ new_lines' = [n \in 1..Len(aff) |-> FixLine(aff_lines'[n])]
    /\ pc' = "open_aff"
    /\ UNCHANGED <<script, lines, out, exc, runs, prev, scanLocals, dic, aff,
                   good, content, written, old_aff, old_good>>

\* open(aff_path, 'w', ...) truncates the file
OpenAff ==
    /\ script = "fix_condition_files" /\ pc = "open_aff"
    /\ aff' = <<>>
    /\ written' = 0
    /\ pc' = "write_aff"
    /\ UNCHANGED <<script, lines, out, exc, runs, prev, scanLocals, dic, good,
                   aff_lines, new_lines, content, old_aff, old_good>>

\* writelines() writes line after line; a line that cannot be encoded raises,
\* and leaving the with block closes the file with the lines written so far
WriteAffLine ==
    /\ script = "fix_condition_files" /\ pc = "write_aff"
    /\ written < Len(new_lines)
    /\ IF Latin2Encodable(new_lines[written + 1])
       THEN /\ aff' = Append(aff, Latin2Encode(new_lines[written + 1]))
            /\ written' = written + 1
            /\ UNCHANGED <<pc, exc>>
       ELSE /\ exc' = "UnicodeEncodeError"
            /\ pc' = "crashed"
            /\ UNCHANGED <<aff, written>>
    /\ UNCHANGED <<script, lines, out, runs, prev, scanLocals, dic, good,
                   aff_lines, new_lines, content, old_aff, old_good>>

CloseAff ==
    /\ script = "fix_condition_files" /\ pc = "write_aff"
    /\ written = Len(new_lines)
    /\ out' = Append(out, <<MsgFixed, <<2>>>>)
    /\ pc' = "read_good"
    /\ UNCHANGED <<script, lines, exc, runs, prev, scanLocals, fixVars>>

\* a strict read: invalid UTF-8 raises before the file is opened for writing
ReadGood ==
    /\ script = "fix_condition_files" /\ pc = "read_good"
    /\ IF Utf8Valid(good)
       THEN /\ content' = Utf8DecodeReplace(good)
            /\ pc' = "open_good"
            /\ UNCHANGED exc
       ELSE /\ exc' = "UnicodeDecodeError"
            /\ pc' = "crashed"
            /\ UNCHANGED content
    /\ UNCHANGED <<script, lines, out, runs, prev, scanLocals, dic, aff, good,
                   aff_lines, new_lines, written, old_aff, old_good>>

OpenGood ==
    /\ script = "fix_condition_files" /\ pc = "open_good"
    /\ good' = <<>>
    /\ pc' = "write_good"
    /\ UNCHANGED <<script, lines, out, exc, runs, prev, scanLocals, dic, aff,
                   aff_lines, new_lines, content, written, old_aff, old_good>>

WriteGood ==
    /\ script = "fix_condition_files" /\ pc = "write_good"
    /\ IF Latin2Encodable(content)
       THEN /\ good' = Latin2Encode(content)
            /\ out' = Append(out, <<MsgFixed, <<3>>>>)
            /\ pc' = "done"
            /\ UNCHANGED exc
       ELSE /\ exc' = "UnicodeEncodeError"
            /\ pc' = "crashed"
            /\ UNCHANGED <<good, out>>
    /\ UNCHANGED <<script, lines, runs, prev, scanLocals, dic, aff,
                   aff_lines, new_lines, content, written, old_aff, old_good>>

InitFix ==
    /\ script = "fix_condition_files"
    /\ lines = <<>>
    /\ pc = "start"
    /\ out = <<>> /\ exc = "none"
    /\ runs = 1 /\ prev = <<>>
    /\ i = 0 /\ bal = 0
    /\ last_zero = None /\ start_class = None /\ first_zero_after_class = None
    /\ start = None /\ first_open = None /\ end = None
    /\ dic \in GoodFiles
    /\ aff \in AffFiles
    /\ good \in GoodFiles
    /\ aff_lines = <<>> /\ new_lines = <<>> /\ content = <<>>
    /\ written = 0
    /\ old_aff = aff /\ old_good = good

NextFix ==
    \/ WriteDic
    \/ ReadAff
    \/ OpenAff
    \/ WriteAffLine
    \/ CloseAff
    \/ ReadGood
    \/ OpenGood
    \/ WriteGood

SpecFix == InitFix /\ [][NextFix]_vars

-----------------------------------------------------------------------------
(* What the claims speak of, defined from the file's text alone *)

Min(S) == CHOOSE x \in S : \A y \in S : x <= y
Max(S) == CHOOSE x \in S : \A y \in S : x >= y
MinOrNone(S) == IF S = {} THEN None ELSE Min(S)
MaxOrNone(S) == IF S = {} THEN None ELSE Max(S)

\* number of c among the first k characters of line
Occurs(c, line, k) == Cardinality({p \in 1..k : line[p] = c})

\* '{' minus '}' over the first k characters of line
PrefixBalance(line, k) == Occurs("{", line, k) - Occurs("}", line, k)

\* '{' minus '}' over lines 1..n of ls
RECURSIVE Balance(_, _)
Balance(ls, n) ==
    IF n = 0 THEN 0
    ELSE Balance(ls, n - 1) + PrefixBalance(ls[n], Len(ls[n]))

NegLines(ls) == {n \in 1..Len(ls) : Balance(ls, n) < 0}
ZeroLines(ls) == {n \in 1..Len(ls) : Balance(ls, n) = 0}
MarkerLines(ls, sub) == {n \in 1..Len(ls) : Contains(sub, ls[n])}

\* the line holding the first '}' at which the character-by-character count
\* drops below zero
DropsBelow(ls, n) ==
    \E k \in 1..Len(ls[n]) : Balance(ls, n - 1) + PrefixBalance(ls[n], k) < 0
UnmatchedLine(ls) == MinOrNone({n \in 1..Len(ls) : DropsBelow(ls, n)})

\* no line holds a '}' before a '{'
OpenFirst(ls) ==
    \A n \in 1..Len(ls) : \A p, q \in 1..Len(ls[n]) :
        p < q => ~(ls[n][p] = "}" /\ ls[n][q] = "{")

Example1 == << <<"{">>, <<"}">>, <<"}">> >>
Example2 == << <<"{">>, <<"{">>, <<"}">>, <<"}">> >>
Example3 == << <<"{">>, <<"{">>, <<"}">>, <<"M">>, <<"}">> >>

-----------------------------------------------------------------------------
\* C1: debug_braces.py, on a file some line of which ends with a negative
\* cumulative balance, never goes past the first such line n, reports n as
\* the line where the balance went negative, and reports as last balanced
\* line the greatest m < n with cumulative balance zero, None when there is
\* none; a reported m is <= n. For "{", "}", "}" it reports 2 and 3.
C1_StopsAtFirstNegative ==
    (script = "debug_braces" /\ NegLines(lines) # {}) =>
        LET n == Min(NegLines(lines))
            m == MaxOrNone({z \in ZeroLines(lines) : z < n})
        IN /\ i <= n
           /\ pc = "done" =>
                /\ i = n
                /\ last_zero = m
                /\ out = << <<MsgNegative, <<n>>>>, <<MsgLastZero, <<m>>>> >>
                /\ (m # None => m <= n)
                /\ (lines = Example1 => m = 2 /\ n = 3)

C1_Witness ==
    /\ script = "debug_braces" /\ pc = "done" /\ lines = Example1
    /\ out = << <<MsgNegative, <<3>>>>, <<MsgLastZero, <<2>>>> >>

\* C2: debug_braces.py, on a file whose cumulative balance is never negative,
\* processes every line, never prints the negative-balance message, and
\* reports the greatest line with cumulative balance zero: the final line
\* when the file ends balanced (4 for "{", "{", "}", "}"), None for the
\* empty file.
C2_NoDefectDetected ==
    (script = "debug_braces" /\ NegLines(lines) = {}) =>
        LET m == MaxOrNone(ZeroLines(lines))
        IN /\ \A k \in 1..Len(out) : out[k][1] # MsgNegative
           /\ pc = "done" =>
                /\ i = Len(lines)
                /\ last_zero = m
                /\ out = << <<MsgLastZero, <<m>>>> >>
                /\ (Len(lines) > 0 /\ Balance(lines, Len(lines)) = 0
                        => m = Len(lines))
                /\ (lines = <<>> => m = None)
                /\ (lines = Example2 => m = 4)

C2_Witness ==
    /\ script = "debug_braces" /\ pc = "done" /\ lines = Example2
    /\ out = << <<MsgLastZero, <<4>>>> >>

\* C3: find_premature_close.py, when the marker's first line is s, reports
\* the least line i >= s at which the balance counted from line 1 is zero,
\* None when there is none; no line before s is reported. For "{", "{",
\* "}", "M", "}" (marker at line 4) the result is 5.
C3_FirstZeroAtOrAfterMarker ==
    (script = "find_premature_close" /\ MarkerLines(lines, class_decl) # {}) =>
        LET s == Min(MarkerLines(lines, class_decl))
            r == MinOrNone({z \in ZeroLines(lines) : z >= s})
        IN /\ pc # "crashed"
           /\ pc = "done" =>
                /\ start_class = s
                /\ first_zero_after_class = r
                /\ out = << <<MsgClass, <<s>>>>, <<MsgFirstZero, <<r>>>> >>
                /\ (r # None => r >= s)
                /\ (lines = Example3 => s = 4 /\ r = 5)

C3_Witness ==
    /\ script = "find_premature_close" /\ pc = "done" /\ lines = Example3
    /\ out = << <<MsgClass, <<4>>>>, <<MsgFirstZero, <<5>>>> >>

\* C4: when no line holds the marker, find_premature_close.py and
\* check_method_braces.py report it, count no line, and end without an
\* unhandled exception.
C4_MarkerNotFoundIsNotFatal ==
    \A sc \in {<<"find_premature_close", class_decl>>,
               <<"check_method_braces", method_sig>>} :
        (script = sc[1] /\ MarkerLines(lines, sc[2]) = {} /\ pc \in Terminal) =>
            /\ exc # "TypeError"
            /\ i = 0
            /\ out # <<>>

\* the scan has no line to report
NoQualifyingLine ==
    \/ /\ script = "debug_braces"
       /\ ZeroLines(lines) = {}
    \/ /\ script = "find_premature_close"
       /\ MarkerLines(lines, class_decl) # {}
       /\ {z \in ZeroLines(lines) : z >= Min(MarkerLines(lines, class_decl))} = {}
    \/ /\ script = "check_method_braces"
       /\ first_open # None
       /\ {k \in first_open..Len(lines) :
              Balance(lines, k) - Balance(lines, first_open - 1) = 0} = {}

\* C5: a scan that ends without a qualifying zero-balance line reports None
\* and finishes normally, with no exception.
C5_NoneFoundIsNotAnError ==
    (NoQualifyingLine /\ pc \in Terminal) =>
        /\ pc = "done"
        /\ exc = "none"
        /\ last_zero = None /\ first_zero_after_class = None /\ end = None

\* C6 as stated: whenever debug_braces.py reports negativity, the first '}'
\* at which the character-by-character count drops below zero lies on a line
\* strictly after the reported last balanced line and at or before the line
\* reported negative, for every input.
C6_UnmatchedBraceInRange ==
    (script = "debug_braces" /\ pc = "done" /\ NegLines(lines) # {}) =>
        /\ UnmatchedLine(lines) # None
        /\ UnmatchedLine(lines) <= i
        /\ (last_zero # None => last_zero < UnmatchedLine(lines))

\* C6 as amended: the unmatched closing brace lies at or before the line
\* reported negative for every input, and strictly after the reported last
\* balanced line for every input no line of which holds a '}' before a '{'.
C6_UnmatchedBraceInRangeOpenFirst ==
    (script = "debug_braces" /\ pc = "done" /\ NegLines(lines) # {}) =>
        /\ UnmatchedLine(lines) # None
        /\ UnmatchedLine(lines) <= i
        /\ (OpenFirst(lines) /\ last_zero # None
                => last_zero < UnmatchedLine(lines))

C6_Witness ==
    /\ script = "debug_braces" /\ pc = "done" /\ NegLines(lines) # {}
    /\ OpenFirst(lines) /\ last_zero # None
    /\ \E n \in 1..Len(lines) : Len(lines[n]) = 2
    /\ last_zero < UnmatchedLine(lines) /\ UnmatchedLine(lines) = i

\* C7: in debug_braces.py and find_premature_close.py the counter is 0 before
\* the first line and, after line i, equals the number of '{' minus the
\* number of '}' over lines 1..i, whatever other characters the lines hold;
\* a line is recorded as balanced only on its end-of-line value.
C7_CounterIsCumulativeBalance ==
    (script \in {"debug_braces", "find_premature_close"} /\ pc # "start") =>
        /\ bal = Balance(lines, i)
        /\ (i = 0 => bal = 0)
        /\ (last_zero # None => Balance(lines, last_zero) = 0)
        /\ (first_zero_after_class # None
                => Balance(lines, first_zero_after_class) = 0)

C7_Witness ==
    /\ script = "find_premature_close" /\ pc = "loop"
    /\ i = 2 /\ bal = 1
    /\ lines[1] = <<"M", "{">> /\ lines[2] = <<"}", "{">>

\* C8: debug_braces.py and find_premature_close.py never change the scanned
\* file, and a second run on it prints what the first run printed and ends
\* the way the first run ended.
C8_RerunGivesSameResult ==
    /\ [][(script \in {"debug_braces", "find_premature_close"})
            => (lines' = lines)]_vars
    /\ [](script \in {"debug_braces", "find_premature_close"}
            /\ runs > 1 /\ pc \in Terminal
          => <<out, exc>> = prev)

C8_Witness ==
    /\ script = "find_premature_close" /\ runs = 2 /\ pc = "done"
    /\ first_zero_after_class # None
    /\ prev = <<out, exc>>

\* C9: check_method_braces.py, with s the first line holding the signature,
\* reports as first-brace line the least line > s holding '{' and as closing
\* line the least k >= first-brace line at which the balance counted from
\* the start of the first-brace line is zero; s < first-brace <= closing.
C9_MethodExtent ==
    (script = "check_method_braces" /\ pc \in {"excerpt", "done", "crashed"}) =>
        LET s == MinOrNone(MarkerLines(lines, method_sig))
            fo == MinOrNone({n \in (s + 1)..Len(lines) :
                                Occurs("{", lines[n], Len(lines[n])) > 0})
            cl == MinOrNone({k \in fo..Len(lines) :
                                Balance(lines, k) - Balance(lines, fo - 1) = 0})
        IN /\ s # None /\ fo # None
           /\ start = s /\ first_open = fo /\ end = cl
           /\ out[1] = <<MsgMethod, <<s, fo, cl, bal>>>>
           /\ s < fo
           /\ (cl # None => fo <= cl)

C9_Witness ==
    /\ script = "check_method_braces" /\ pc = "done"
    /\ start = 1 /\ first_open = 2 /\ end = 3
    /\ Occurs("{", lines[start], Len(lines[start])) > 0

\* the complete new content of a fixture file, when its text can be encoded
NewAffText(old) == [n \in 1..Len(old) |-> FixLine(Utf8DecodeReplace(old[n]))]
CompleteNewAff(old) ==
    IF \A n \in 1..Len(old) : Latin2Encodable(NewAffText(old)[n])
    THEN {[n \in 1..Len(old) |-> Latin2Encode(NewAffText(old)[n])]}
    ELSE {}
CompleteNewGood(old) ==
    IF Utf8Valid(old) /\ Latin2Encodable(Utf8DecodeReplace(old))
    THEN {Latin2Encode(Utf8DecodeReplace(old))}
    ELSE {}

\* C10: at the end of every run of fix_condition_files.py, condition.aff and
\* condition.good each hold their complete new ISO-8859-2 content or their
\* previous content; a text that cannot be encoded never leaves a file
\* truncated or partly written.
C10_RewriteIsAllOrNothing ==
    (script = "fix_condition_files" /\ pc \in Terminal) =>
        /\ aff \in {old_aff} \cup CompleteNewAff(old_aff)
        /\ good \in {old_good} \cup CompleteNewGood(old_good)

====
